---- MODULE Spec2Model ----
(***************************************************************************)
(* A model of tosm's loader, src/lib.rs: parse_file reads a JSON document  *)
(* of nodes and ways and builds a TOSMFile: the two record vectors, the    *)
(* two id -> position hash maps and the k-d tree of node coordinates.      *)
(*                                                                         *)
(* One action per statement of parse_file.  Vectors are TLA+ sequences     *)
(* (1-based); Rust addresses a Vec from 0, so every statement about "the   *)
(* element at a position" goes through InBounds and At below.  An f64 is   *)
(* written as its decimal text; "NaN" and "inf" are the non-finite ones.   *)
(***************************************************************************)
EXTENDS Integers, Sequences, FiniteSets, TLC

\* ------------------------------------------------------------------ bounds
MaxNodes == 3
MaxWays == 2

\* ------------------------------------------------------- input value sets
Ids == {7, 9}

Points == { <<"64.0", "-21.0">>, <<"64.2", "-21.9">>,
            <<"NaN", "-21.0">>, <<"64.0", "inf">> }

\* struct Node { id, lat, lon }
Node(id, lat, lon) == [id |-> id, lat |-> lat, lon |-> lon]

NodeValues == { Node(i, p[1], p[2]) : i \in Ids, p \in Points }

\* struct Way { id, node_ids, one_way, name }; name: Option<String> is the
\* empty sequence for None and a one-element sequence for Some.
Way(id, node_ids, one_way, name) ==
    [id |-> id, node_ids |-> node_ids, one_way |-> one_way, name |-> name]

WayValues == { Way(7, <<7, 9>>, FALSE, <<"Fjolugata">>),
               Way(7, <<>>, TRUE, <<>>),
               Way(9, <<9, 8>>, TRUE, <<>>) }

RECURSIVE SeqsUpTo(_, _)
SeqsUpTo(S, n) ==
    IF n = 0 THEN { <<>> }
    ELSE LET shorter == SeqsUpTo(S, n - 1)
         IN  shorter \cup { Append(s, x) : s \in { t \in shorter : Len(t) = n - 1 }, x \in S }

\* ------------------------------------------------------------------ state
VARIABLES
    doc,            \* what is at `path`: "unreadable", "malformed" or "ok"
    v_nodes,        \* v.nodes of the parsed SourceFile
    v_ways,         \* v.ways of the parsed SourceFile
    ni,             \* records the `for node in v.nodes` iterator has yielded
    wi,             \* records the `for way in v.ways` iterator has yielded
    nodes,          \* file.nodes
    ways,           \* file.ways
    node_indexes,   \* file.node_indexes
    way_indexes,    \* file.way_indexes
    kd_tree,        \* file.kd_tree: its entries, in insertion order
    pc,             \* the statement parse_file is at
    panicked_at,    \* the unwrap() that panicked, "" while none has
    result          \* what the caller received: <<>> or <<the TOSMFile>>

vars == << doc, v_nodes, v_ways, ni, wi, nodes, ways, node_indexes,
           way_indexes, kd_tree, pc, panicked_at, result >>

\* ---------------------------------------------------------------- helpers
\* HashMap::new()
EmptyMap == [k \in {} |-> 0]

\* The variant of HashMap::insert that keeps an existing entry.
MapInsertKeepFirst(m, k, val) ==
    [x \in DOMAIN m \cup {k} |-> IF x \in DOMAIN m THEN m[x] ELSE val]

\* HashMap::insert(k, val): the entry of k is replaced
MapInsert(m, k, val) ==
    [x \in DOMAIN m \cup {k} |-> IF x = k THEN val ELSE m[x]]

\* The zero-based index of the element just pushed: vec.len() - 1.
LastIndex(vec) == Len(vec) - 1

\* The position parse_file records: file.nodes.len() after the push
RecordedPosition(vec) == Len(vec)

\* Zero-based addressing of a Vec: vec[i] is defined iff i < vec.len()
InBounds(vec, i) == i >= 0 /\ i < Len(vec)
At(vec, i) == vec[i + 1]

\* f64::is_finite on the decimal text of a coordinate
IsFinite(x) == x \notin {"NaN", "inf", "-inf"}

\* KdTree::add(point, data): Err on a non-finite coordinate, otherwise one
\* more entry, whatever the tree already holds.
KdAddOk(point) == \A d \in 1..Len(point) : IsFinite(point[d])
KdAdd(tree, point, data) == Append(tree, [point |-> point, data |-> data])

\* fn parse_file(path: &str) -> TOSMFile: the caller gets a TOSMFile or is
\* unwound by a panic; the signature has no error value.
CallerReceives ==
    IF pc = "returned" THEN "TOSMFile"
    ELSE IF pc = "panicked" THEN "panic"
    ELSE "nothing yet"

\* The fields of `file`, as returned at line 63
File == [nodes |-> nodes, ways |-> ways, node_indexes |-> node_indexes,
         way_indexes |-> way_indexes, kd_tree |-> kd_tree]

\* ------------------------------------------------------------------- Init
Init ==
    /\ doc \in {"unreadable", "malformed", "ok"}
    /\ IF doc = "ok"
       THEN /\ v_nodes \in SeqsUpTo(NodeValues, MaxNodes)
            /\ v_ways \in SeqsUpTo(WayValues, MaxWays)
       ELSE /\ v_nodes = <<>>
            /\ v_ways = <<>>
    /\ ni = 0
    /\ wi = 0
    /\ nodes = <<>>
    /\ ways = <<>>
    /\ node_indexes = EmptyMap
    /\ way_indexes = EmptyMap
    /\ kd_tree = <<>>
    /\ pc = "read"
    /\ panicked_at = ""
    /\ result = <<>>

\* ---------------------------------------------------------------- actions
\* line 48: std::fs::read_to_string(path).unwrap()
ReadToString ==
    /\ pc = "read"
    /\ IF doc = "unreadable"
       THEN /\ pc' = "panicked"
            /\ panicked_at' = "read_to_string"
       ELSE /\ pc' = "parse"
            /\ UNCHANGED panicked_at
    /\ UNCHANGED << doc, v_nodes, v_ways, ni, wi, nodes, ways, node_indexes,
                    way_indexes, kd_tree, result >>

\* line 49: serde_json::from_str(&source).unwrap()
FromStr ==
    /\ pc = "parse"
    /\ IF doc = "malformed"
       THEN /\ pc' = "panicked"
            /\ panicked_at' = "from_str"
       ELSE /\ pc' = "nodes"
            /\ UNCHANGED panicked_at
    /\ UNCHANGED << doc, v_nodes, v_ways, ni, wi, nodes, ways, node_indexes,
                    way_indexes, kd_tree, result >>

\* The node loop body with an insertion error skipped instead of unwrapped.
NodeStepSkipOnErr ==
    /\ pc = "nodes"
    /\ ni < Len(v_nodes)
    /\ LET node == v_nodes[ni + 1]
           pushed == Append(nodes, node)
       IN  /\ ni' = ni + 1
           /\ nodes' = pushed
           /\ node_indexes' = MapInsert(node_indexes, node.id, RecordedPosition(pushed))
           /\ kd_tree' = IF KdAddOk(<<node.lat, node.lon>>)
                         THEN KdAdd(kd_tree, <<node.lat, node.lon>>, node.id)
                         ELSE kd_tree
           /\ UNCHANGED << pc, panicked_at >>
    /\ UNCHANGED << doc, v_nodes, v_ways, wi, ways, way_indexes, result >>

\* The node loop body with a record whose id is already indexed dropped.
NodeStepDedup ==
    /\ pc = "nodes"
    /\ ni < Len(v_nodes)
    /\ LET node == v_nodes[ni + 1]
           pushed == Append(nodes, node)
       IN  /\ ni' = ni + 1
           /\ IF node.id \in DOMAIN node_indexes
              THEN UNCHANGED << nodes, node_indexes, kd_tree, pc, panicked_at >>
              ELSE /\ nodes' = pushed
                   /\ node_indexes' = MapInsert(node_indexes, node.id, RecordedPosition(pushed))
                   /\ IF KdAddOk(<<node.lat, node.lon>>)
                      THEN /\ kd_tree' = KdAdd(kd_tree, <<node.lat, node.lon>>, node.id)
                           /\ UNCHANGED << pc, panicked_at >>
                      ELSE /\ pc' = "panicked"
                           /\ panicked_at' = "kd_tree.add"
                           /\ UNCHANGED kd_tree
    /\ UNCHANGED << doc, v_nodes, v_ways, wi, ways, way_indexes, result >>

\* lines 51-55: one iteration of `for node in v.nodes`
NodeStep ==
    /\ pc = "nodes"
    /\ ni < Len(v_nodes)
    /\ LET node == v_nodes[ni + 1]
           pushed == Append(nodes, node)
       IN  /\ ni' = ni + 1
           /\ nodes' = pushed
           /\ node_indexes' = MapInsert(node_indexes, node.id, RecordedPosition(pushed))
           /\ IF KdAddOk(<<node.lat, node.lon>>)
              THEN /\ kd_tree' = KdAdd(kd_tree, <<node.lat, node.lon>>, node.id)
                   /\ UNCHANGED << pc, panicked_at >>
              ELSE /\ pc' = "panicked"
                   /\ panicked_at' = "kd_tree.add"
                   /\ UNCHANGED kd_tree
    /\ UNCHANGED << doc, v_nodes, v_ways, wi, ways, way_indexes, result >>

\* line 51 -> line 57: the node iterator is exhausted
NodesDone ==
    /\ pc = "nodes"
    /\ ni = Len(v_nodes)
    /\ pc' = "ways"
    /\ UNCHANGED << doc, v_nodes, v_ways, ni, wi, nodes, ways, node_indexes,
                    way_indexes, kd_tree, panicked_at, result >>

\* lines 57-60: one iteration of `for way in v.ways`
WayStep ==
    /\ pc = "ways"
    /\ wi < Len(v_ways)
    /\ LET way == v_ways[wi + 1]
           pushed == Append(ways, way)
       IN  /\ wi' = wi + 1
           /\ ways' = pushed
           /\ way_indexes' = MapInsert(way_indexes, way.id, RecordedPosition(pushed))
    /\ UNCHANGED << doc, v_nodes, v_ways, ni, nodes, node_indexes, kd_tree,
                    pc, panicked_at, result >>

\* line 63: `file` is returned once the way iterator is exhausted
Return ==
    /\ pc = "ways"
    /\ wi = Len(v_ways)
    /\ pc' = "returned"
    /\ result' = << File >>
    /\ UNCHANGED << doc, v_nodes, v_ways, ni, wi, nodes, ways, node_indexes,
                    way_indexes, kd_tree, panicked_at >>

Next ==
    \/ ReadToString
    \/ FromStr
    \/ NodeStep
    \/ NodesDone
    \/ WayStep
    \/ Return

Spec == Init /\ [][Next]_vars

\* ----------------------------------------------------------- properties
\* The ids of the records of a vector
IdsOf(vec) == { vec[i].id : i \in 1..Len(vec) }

\* The zero-based index of the last record of vec with the given id
LastZeroBased(vec, id) ==
    CHOOSE i \in 0..(Len(vec) - 1) :
        /\ At(vec, i).id = id
        /\ \A k \in (i + 1)..(Len(vec) - 1) : At(vec, k).id # id

\* Every key of the map addresses, from 0, a record of vec with that id
Consistent(vec, m) ==
    \A id \in DOMAIN m : InBounds(vec, m[id]) /\ At(vec, m[id]).id = id

\* The map holds, for exactly the ids of vec, 1 + the zero-based index of the
\* last record with that id
PostPush(vec, m) ==
    /\ DOMAIN m = IdsOf(vec)
    /\ \A id \in DOMAIN m :
          /\ m[id] = 1 + LastZeroBased(vec, id)
          /\ m[id] \in 1..Len(vec)
          /\ m[id] # 0

\* Of two source records sharing an id the map addresses, from 0, the later
\* one, and both are in vec at their source positions
LastWins(src, vec, m) ==
    \A i, j \in 0..(Len(src) - 1) :
        (i < j /\ At(src, i).id = At(src, j).id /\ j = LastZeroBased(src, At(src, j).id))
        => /\ InBounds(vec, i) /\ At(vec, i) = At(src, i)
           /\ InBounds(vec, j) /\ At(vec, j) = At(src, j)
           /\ At(src, j).id \in DOMAIN m
           /\ m[At(src, j).id] = j

HasNonFiniteNode ==
    \E i \in 1..Len(v_nodes) : ~KdAddOk(<<v_nodes[i].lat, v_nodes[i].lon>>)

FirstNonFinite ==
    CHOOSE i \in 1..Len(v_nodes) :
        /\ ~KdAddOk(<<v_nodes[i].lat, v_nodes[i].lon>>)
        /\ \A k \in 1..(i - 1) : KdAddOk(<<v_nodes[k].lat, v_nodes[k].lon>>)

\* C1: after parse_file has returned, every id in node_indexes maps to a
\* position within bounds of nodes whose node has exactly that id, and the
\* same for way_indexes and ways.
C1_LookupConsistency ==
    pc = "returned" => Consistent(nodes, node_indexes) /\ Consistent(ways, way_indexes)

\* C4: after a load, of two nodes (or ways) of the source that share an id
\* the map entry of that id points to the position of the later one, and both
\* records are in the sequence.
C4_DuplicateLastWins ==
    pc = "returned" => LastWins(v_nodes, nodes, node_indexes) /\ LastWins(v_ways, ways, way_indexes)

\* C6: when a source node has a non-finite latitude or longitude, the load
\* never gets past the node loop and never returns a structure; the panic it
\* ends in is the failed insertion of the first such node.
C6_NonFiniteAborts ==
    (doc = "ok" /\ HasNonFiniteNode)
    => /\ pc \notin {"ways", "returned"}
       /\ result = <<>>
       /\ ni <= FirstNonFinite
       /\ pc = "panicked" => (panicked_at = "kd_tree.add" /\ ni = FirstNonFinite)

C6_Witness ==
    /\ pc = "panicked"
    /\ panicked_at = "kd_tree.add"
    /\ ni = 3
    /\ Len(nodes) = 3
    /\ result = <<>>

\* C7: when the document is unreadable or malformed, the load ends before any
\* node or way is processed, returns no structure, and the caller receives
\* the failure as an error value.
C7_InputErrorIsErrValue ==
    (doc # "ok" /\ pc \in {"panicked", "returned"})
    => /\ ni = 0 /\ wi = 0 /\ nodes = <<>> /\ ways = <<>>
       /\ result = <<>>
       /\ CallerReceives = "Err"

\* C9: after a successful load nodes and ways equal the source sequences, the
\* spatial index holds one entry (lat, lon) -> id per source node; no way is
\* processed before every node is, and processing a way changes neither
\* nodes, node_indexes nor the spatial index.
C9_LoadContents ==
    /\ [](pc = "returned" =>
            /\ nodes = v_nodes
            /\ ways = v_ways
            /\ Len(kd_tree) = Len(v_nodes)
            /\ \A i \in 1..Len(v_nodes) :
                  kd_tree[i] = [point |-> <<v_nodes[i].lat, v_nodes[i].lon>>,
                                data |-> v_nodes[i].id])
    /\ [](wi > 0 \/ ways # <<>> => ni = Len(v_nodes) /\ nodes = v_nodes)
    /\ [][(wi' # wi \/ ways' # ways \/ way_indexes' # way_indexes)
            => UNCHANGED << nodes, node_indexes, kd_tree >>]_vars

C9_Witness ==
    /\ pc = "returned"
    /\ Len(nodes) >= 3
    /\ nodes[1] = nodes[2]
    /\ nodes[3].id = nodes[1].id
    /\ nodes[3].lat # nodes[1].lat
    /\ Len(ways) >= 2

\* C10: after a load the keys of node_indexes are exactly the ids occurring
\* in nodes and each value is 1 plus the zero-based index of the last node
\* with that id, hence in 1..len(nodes) and never 0; the same for ways.
C10_PostPushPositions ==
    pc = "returned" => PostPush(nodes, node_indexes) /\ PostPush(ways, way_indexes)

C10_Witness ==
    /\ pc = "returned"
    /\ Len(nodes) >= 3
    /\ nodes[1].id = nodes[2].id
    /\ nodes[3].id # nodes[1].id
    /\ node_indexes[nodes[1].id] = 2
    /\ Len(ways) >= 2
    /\ ways[1].id = ways[2].id
    /\ way_indexes[ways[1].id] = 2

====
